---- MODULE Spec2Model ----
(***************************************************************************)
(* A model of ThreadSafeBuffer (buffer.go): goroutines call Write, Read    *)
(* and Close on one buffer.  Every goroutine is a process with a program   *)
(* counter; a step of a process is one lock acquisition, one channel       *)
(* operation, or one critical section of the code.                         *)
(***************************************************************************)
EXTENDS Integers, Sequences, FiniteSets, TLC

\* ---------------------------------------------------------------- bounds
NumProcs == 3      \* goroutines using the buffer, each making one call
MaxLen == 2        \* longest written slice and longest read target
MaxCap == 2        \* largest Config.MaxBufferSize
MaxTimeout == 1    \* largest Config.ReadTimeout, in clock units
MaxDrainTime == 1  \* largest Config.DrainTime, in clock units
ParN == 2          \* writers, and readers, of the parallel scenario

Procs == 1..NumProcs

\* The slice of n bytes goroutine p writes.  The code never looks at the
\* value of a byte, so every written byte is given a value of its own: a
\* lost, repeated or misplaced byte then shows in the bytes read.
Slice(p, n) == [i \in 1..n |-> (p - 1) * MaxLen + i]

\* make([]byte, n): a read target of n zero bytes.
Target(n) == [i \in 1..n |-> 0]

Min(a, b) == IF a < b THEN a ELSE b

\* ---------------------------------------------------------- configuration
\* Config (config.go).  MaxBufferSize is only read when MaxBuffer is set.
Config ==
  {c \in [MaxBuffer : BOOLEAN, MaxBufferSize : 0..MaxCap, DrainRead : BOOLEAN,
          ReadTimeout : 0..MaxTimeout, DrainTime : 0..MaxDrainTime] :
     ~c.MaxBuffer => c.MaxBufferSize = 0}

\* UnlimitedBuffer() (config.go).
UnlimitedBuffer ==
  [MaxBuffer |-> FALSE, MaxBufferSize |-> 0, DrainRead |-> TRUE,
   ReadTimeout |-> 0, DrainTime |-> 0]

VARIABLES
  config,        \* tsb.config
  buffer,        \* tsb.buffer: the stored bytes, oldest first
  done,          \* tsb.done is closed
  drainElapsed,  \* time.Since(tsb.drainTime), saturating; -1: drainTime is the zero time
  bufferLock,    \* holder of tsb.bufferLock, 0 when free
  readLock,      \* holder of tsb.readLock, 0 when free
  onceDone,      \* tsb.once has run its function
  onceLock,      \* holder of the mutex inside tsb.once, 0 when free
  notifyCount,   \* tsb.notify: notifications added and not yet received
  notifyStopped, \* tsb.notify is stopped
  pc,            \* where each goroutine is
  op,            \* the call each goroutine made last
  arg,           \* its slice argument b
  ok,            \* the ok of its last receive from notify.Ready()
  tickerAge,     \* time since its ticker was made, saturating at ReadTimeout
  ret,           \* what its last call returned
  written,       \* history: bytes of the successful Writes, in lock order
  delivered,     \* history: bytes of the successful Reads, in lock order
  closes         \* history: how often close(tsb.done) ran

vars == <<config, buffer, done, drainElapsed, bufferLock, readLock, onceDone,
          onceLock, notifyCount, notifyStopped, pc, op, arg, ok, tickerAge,
          ret, written, delivered, closes>>

bufVars == <<buffer, written, delivered>>
closeVars == <<done, drainElapsed, onceDone, onceLock, notifyStopped, closes>>

NoRet == [n |-> 0, err |-> "none", data |-> <<>>]

\* ------------------------------------------------------- Readiness Signal
\* gonotify.Notify: Add() queues one notification unless stopped, Ready()
\* delivers one queued notification per receive, and after Stop() every
\* receive returns at once with ok = false.
NotifyAdd(count, stopped) == IF stopped THEN count ELSE count + 1

NotifyReady(count, stopped) == stopped \/ count > 0

NotifyReceive(count, stopped) ==
  IF stopped THEN [ok |-> FALSE, count |-> count]
  ELSE [ok |-> TRUE, count |-> count - 1]

\* ------------------------------------------------------------ bytes.Buffer
\* bytes.Buffer.Write: appends all of b.
BufWrite(buf, b) == buf \o b

\* bytes.Buffer.Read(p): copies min(len(p), Len()) bytes from the front;
\* on an empty buffer 0 with io.EOF, or 0 with nil when len(p) = 0.
BufRead(buf, m) ==
  IF Len(buf) = 0
  THEN [n |-> 0, err |-> IF m = 0 THEN "nil" ELSE "EOF", data |-> <<>>, rest |-> <<>>]
  ELSE LET k == Min(m, Len(buf))
       IN [n |-> k, err |-> "nil", data |-> SubSeq(buf, 1, k),
           rest |-> SubSeq(buf, k + 1, Len(buf))]

\* time.Since(tsb.drainTime): since the zero time it exceeds every DrainTime.
TimeSince(cfg, elapsed) == IF elapsed = -1 THEN cfg.DrainTime + 1 ELSE elapsed

\* ------------------------------------------------------------------ Write
\* Mutant: the capacity test refuses a write that fills the storage exactly.
ExceedsMaxOffByOne(cfg, buf, b) ==
  cfg.MaxBuffer /\ Len(buf) + Len(b) >= cfg.MaxBufferSize

ExceedsMax(cfg, buf, b) == cfg.MaxBuffer /\ Len(buf) + Len(b) > cfg.MaxBufferSize

\* Mutant: the capacity is tested before the closed channel.
WriteResultCapacityFirst(cfg, closed, buf, b) ==
  IF ExceedsMax(cfg, buf, b)
  THEN [n |-> 0, err |-> "Capacity", buf |-> buf, add |-> FALSE]
  ELSE IF closed
       THEN [n |-> 0, err |-> "WriteClosed", buf |-> buf, add |-> FALSE]
       ELSE [n |-> Len(b), err |-> "nil", buf |-> BufWrite(buf, b), add |-> TRUE]

\* Mutant: a write does not notify.
WriteResultNoNotify(cfg, closed, buf, b) ==
  IF closed
  THEN [n |-> 0, err |-> "WriteClosed", buf |-> buf, add |-> FALSE]
  ELSE IF ExceedsMax(cfg, buf, b)
       THEN [n |-> 0, err |-> "Capacity", buf |-> buf, add |-> FALSE]
       ELSE [n |-> Len(b), err |-> "nil", buf |-> BufWrite(buf, b), add |-> FALSE]

\* Mutant: a refused write has stored the bytes that still fitted.
WriteResultPartial(cfg, closed, buf, b) ==
  IF closed
  THEN [n |-> 0, err |-> "WriteClosed", buf |-> buf, add |-> FALSE]
  ELSE IF ExceedsMax(cfg, buf, b)
       THEN [n |-> 0, err |-> "Capacity",
             buf |-> buf \o SubSeq(b, 1, cfg.MaxBufferSize - Len(buf)),
             add |-> FALSE]
       ELSE [n |-> Len(b), err |-> "nil", buf |-> BufWrite(buf, b), add |-> TRUE]

\* The body of Write under bufferLock: the result, the storage and
\* whether notify.Add() is called.
WriteResult(cfg, closed, buf, b) ==
  IF closed
  THEN [n |-> 0, err |-> "WriteClosed", buf |-> buf, add |-> FALSE]
  ELSE IF ExceedsMax(cfg, buf, b)
       THEN [n |-> 0, err |-> "Capacity", buf |-> buf, add |-> FALSE]
       ELSE [n |-> Len(b), err |-> "nil", buf |-> BufWrite(buf, b), add |-> TRUE]

\* ------------------------------------------------------------------- Read
\* Mutant: the drain window is never looked at.
shouldDrainNoWindow(cfg, buf, elapsed) == cfg.DrainRead /\ Len(buf) # 0

shouldDrain(cfg, buf, elapsed) ==
  IF cfg.DrainRead
  THEN IF cfg.DrainTime # 0 /\ TimeSince(cfg, elapsed) > cfg.DrainTime
       THEN FALSE
       ELSE Len(buf) # 0
  ELSE FALSE

\* Mutant: any stored byte is enough to read.
HasEnoughAny(buf, b) == Len(buf) > 0

\* tsb.buffer.Len() >= len(b)
HasEnough(buf, b) == Len(buf) >= Len(b)

\* Mutant: the last byte read stays in the storage.
ReadAndNotifyKeepsOne(buf, b) ==
  LET r == BufRead(buf, Len(b))
      rest == SubSeq(buf, Len(b), Len(buf))
  IN [n |-> r.n, err |-> r.err, data |-> r.data, buf |-> rest,
      add |-> Len(rest) # 0]

\* n, err := tsb.buffer.Read(b), then notify.Add() if bytes remain.
ReadAndNotify(buf, b) ==
  LET r == BufRead(buf, Len(b))
  IN [n |-> r.n, err |-> r.err, data |-> r.data, buf |-> r.rest,
      add |-> Len(r.rest) # 0]

\* Mutant: a failing readLoop empties the storage.
ReadFailDrops(buf, e) ==
  [n |-> 0, err |-> e, data |-> <<>>, buf |-> <<>>, add |-> FALSE]

ReadFail(buf, e) == [n |-> 0, err |-> e, data |-> <<>>, buf |-> buf, add |-> FALSE]

\* Mutant: too few bytes are an error on the open buffer as well.
readLoopEager(cfg, closed, elapsed, buf, b) ==
  IF closed /\ ~shouldDrain(cfg, buf, elapsed)
  THEN ReadFail(buf, "ReadClosed")
  ELSE IF HasEnough(buf, b)
       THEN ReadAndNotify(buf, b)
       ELSE ReadFail(buf, "Insufficient")

\* readLoop under bufferLock.  (0, nil) tells Read to wait again.
readLoop(cfg, closed, elapsed, buf, b) ==
  IF closed
  THEN IF shouldDrain(cfg, buf, elapsed)
       THEN IF HasEnough(buf, b)
            THEN ReadAndNotify(buf, b)
            ELSE ReadFail(buf, "Insufficient")
       ELSE ReadFail(buf, "ReadClosed")
  ELSE IF HasEnough(buf, b)
       THEN ReadAndNotify(buf, b)
       ELSE ReadFail(buf, "nil")

\* Mutant: Read looks at the count alone.
ReadReturnsCountOnly(r) == r.n # 0

\* Read returns what readLoop returned when err != nil or n != 0.
ReadReturns(r) == r.err # "nil" \/ r.n # 0

\* ------------------------------------------------------------------- Init
\* NewThreadSafeBuffer(cfg), and the goroutines ps that will use it.
New(cfg, ps) ==
  /\ config = cfg
  /\ buffer = <<>>
  /\ done = FALSE
  /\ drainElapsed = -1
  /\ bufferLock = 0
  /\ readLock = 0
  /\ onceDone = FALSE
  /\ onceLock = 0
  /\ notifyCount = 0
  /\ notifyStopped = FALSE
  /\ pc = [p \in ps |-> "init"]
  /\ op = [p \in ps |-> "none"]
  /\ arg = [p \in ps |-> <<>>]
  /\ ok = [p \in ps |-> TRUE]
  /\ tickerAge = [p \in ps |-> 0]
  /\ ret = [p \in ps |-> NoRet]
  /\ written = <<>>
  /\ delivered = <<>>
  /\ closes = 0

Init == \E cfg \in Config : New(cfg, Procs)

\* Goroutine p makes its call, op with slice b.  Goroutines are
\* interchangeable, so they make their calls in the order of their numbers.
Call(p, o, b, at) ==
  /\ pc[p] = "init"
  /\ \A q \in 1..(p - 1) : pc[q] # "init"
  /\ pc' = [pc EXCEPT ![p] = at]
  /\ op' = [op EXCEPT ![p] = o]
  /\ arg' = [arg EXCEPT ![p] = b]
  /\ ret' = [ret EXCEPT ![p] = NoRet]
  /\ ok' = [ok EXCEPT ![p] = TRUE]

\* The call of p returns (n, err), b holding data.
Return(p, n, e, d) ==
  /\ pc' = [pc EXCEPT ![p] = "done"]
  /\ ret' = [ret EXCEPT ![p] = [n |-> n, err |-> e, data |-> d]]

\* ---------------------------------------------------------- Write actions
WriteCallSlice(p, b) ==
  /\ Call(p, "write", b, "w_lock")
  /\ UNCHANGED <<config, bufVars, closeVars, bufferLock, readLock, notifyCount,
                 tickerAge>>

WriteCall(p) == \E n \in 0..MaxLen : WriteCallSlice(p, Slice(p, n))

\* tsb.bufferLock.Lock()
WriteLock(p) ==
  /\ pc[p] = "w_lock"
  /\ bufferLock = 0
  /\ bufferLock' = p
  /\ pc' = [pc EXCEPT ![p] = "w_body"]
  /\ UNCHANGED <<config, bufVars, closeVars, readLock, notifyCount, op, arg, ok,
                 tickerAge, ret>>

\* The select of Write, then the deferred Unlock.
WriteBody(p) ==
  /\ pc[p] = "w_body"
  /\ LET r == WriteResult(config, done, buffer, arg[p])
     IN /\ buffer' = r.buf
        /\ written' = IF r.err = "nil" THEN written \o arg[p] ELSE written
        /\ notifyCount' = IF r.add THEN NotifyAdd(notifyCount, notifyStopped)
                          ELSE notifyCount
        /\ Return(p, r.n, r.err, <<>>)
  /\ bufferLock' = 0
  /\ UNCHANGED <<config, delivered, closeVars, readLock, op, arg, ok, tickerAge>>

\* ----------------------------------------------------------- Read actions
ReadCallLen(p, n) ==
  /\ Call(p, "read", Target(n), "r_lock")
  /\ UNCHANGED <<config, bufVars, closeVars, bufferLock, readLock, notifyCount,
                 tickerAge>>

ReadCall(p) == \E n \in 0..MaxLen : ReadCallLen(p, n)

\* Mutant: Read does not take readLock.
ReadLockNoMutex(p) ==
  /\ pc[p] = "r_lock"
  /\ readLock' = p
  /\ tickerAge' = [tickerAge EXCEPT ![p] = 0]
  /\ pc' = [pc EXCEPT ![p] = "r_select"]
  /\ UNCHANGED <<config, bufVars, closeVars, bufferLock, notifyCount, op, arg, ok,
                 ret>>

\* tsb.readLock.Lock(); with a ReadTimeout the ticker starts here.
ReadLock(p) ==
  /\ pc[p] = "r_lock"
  /\ readLock = 0
  /\ readLock' = p
  /\ tickerAge' = [tickerAge EXCEPT ![p] = 0]
  /\ pc' = [pc EXCEPT ![p] = "r_select"]
  /\ UNCHANGED <<config, bufVars, closeVars, bufferLock, notifyCount, op, arg, ok,
                 ret>>

\* Mutant: the Read that times out keeps readLock.
ReadTimeoutKeepsLock(p) ==
  /\ pc[p] = "r_select"
  /\ config.ReadTimeout # 0
  /\ tickerAge[p] >= config.ReadTimeout
  /\ Return(p, 0, "Timeout", <<>>)
  /\ tickerAge' = [tickerAge EXCEPT ![p] = 0]
  /\ UNCHANGED <<config, bufVars, closeVars, bufferLock, readLock, notifyCount,
                 op, arg, ok>>

\* case <-ticker.C: the Read fails, the deferred Unlock frees readLock.
ReadTimeout(p) ==
  /\ pc[p] = "r_select"
  /\ config.ReadTimeout # 0
  /\ tickerAge[p] >= config.ReadTimeout
  /\ Return(p, 0, "Timeout", <<>>)
  /\ readLock' = 0
  /\ tickerAge' = [tickerAge EXCEPT ![p] = 0]
  /\ UNCHANGED <<config, bufVars, closeVars, bufferLock, notifyCount, op, arg, ok>>

\* case _, ok := <-tsb.notify.Ready()
ReadReady(p) ==
  /\ pc[p] = "r_select"
  /\ NotifyReady(notifyCount, notifyStopped)
  /\ LET r == NotifyReceive(notifyCount, notifyStopped)
     IN /\ ok' = [ok EXCEPT ![p] = r.ok]
        /\ notifyCount' = r.count
  /\ pc' = [pc EXCEPT ![p] = "rl_lock"]
  /\ UNCHANGED <<config, bufVars, closeVars, bufferLock, readLock, op, arg,
                 tickerAge, ret>>

\* Mutant: readLoop runs without bufferLock.
ReadLoopLockNone(p) ==
  /\ pc[p] = "rl_lock"
  /\ pc' = [pc EXCEPT ![p] = "rl_body"]
  /\ UNCHANGED <<config, bufVars, closeVars, bufferLock, readLock, notifyCount,
                 op, arg, ok, tickerAge, ret>>

\* readLoop: tsb.bufferLock.Lock()
ReadLoopLock(p) ==
  /\ pc[p] = "rl_lock"
  /\ bufferLock = 0
  /\ bufferLock' = p
  /\ pc' = [pc EXCEPT ![p] = "rl_body"]
  /\ UNCHANGED <<config, bufVars, closeVars, readLock, notifyCount, op, arg, ok,
                 tickerAge, ret>>

\* Mutant: readLoop frees bufferLock only when Read returns.
ReadLoopBodyKeepsLock(p) ==
  /\ pc[p] = "rl_body"
  /\ LET r == readLoop(config, done, drainElapsed, buffer, arg[p])
     IN /\ buffer' = r.buf
        /\ notifyCount' = IF r.add THEN NotifyAdd(notifyCount, notifyStopped)
                          ELSE notifyCount
        /\ IF ReadReturns(r)
           THEN /\ Return(p, r.n, r.err, r.data)
                /\ delivered' = delivered \o r.data
                /\ readLock' = 0
                /\ tickerAge' = [tickerAge EXCEPT ![p] = 0]
                /\ bufferLock' = 0
           ELSE /\ pc' = [pc EXCEPT ![p] = "r_select"]
                /\ bufferLock' = p
                /\ UNCHANGED <<ret, delivered, readLock, tickerAge>>
  /\ UNCHANGED <<config, written, closeVars, op, arg, ok>>

\* The body of readLoop and its deferred Unlock; then Read returns, freeing
\* readLock, or goes back to its select.
ReadLoopBody(p) ==
  /\ pc[p] = "rl_body"
  /\ LET r == readLoop(config, done, drainElapsed, buffer, arg[p])
     IN /\ buffer' = r.buf
        /\ notifyCount' = IF r.add THEN NotifyAdd(notifyCount, notifyStopped)
                          ELSE notifyCount
        /\ IF ReadReturns(r)
           THEN /\ Return(p, r.n, r.err, r.data)
                /\ delivered' = delivered \o r.data
                /\ readLock' = 0
                /\ tickerAge' = [tickerAge EXCEPT ![p] = 0]
           ELSE /\ pc' = [pc EXCEPT ![p] = "r_select"]
                /\ UNCHANGED <<ret, delivered, readLock, tickerAge>>
  /\ bufferLock' = 0
  /\ UNCHANGED <<config, written, closeVars, op, arg, ok>>

\* ---------------------------------------------------------- Close actions
\* Mutant: Close runs its function on every call.
OnceRanNever(ran) == FALSE

\* tsb.once.Do(f) skips f when the Once has run it before.
OnceRan(ran) == ran

CloseCall(p) ==
  /\ Call(p, "close", <<>>, "c_once")
  /\ UNCHANGED <<config, bufVars, closeVars, bufferLock, readLock, notifyCount,
                 tickerAge>>

\* once.Do: a call after the function has run returns at once; the others
\* take the mutex of the Once, and whoever finds the function already run
\* returns.
CloseOnce(p) ==
  /\ pc[p] = "c_once"
  /\ IF OnceRan(onceDone)
     THEN /\ Return(p, 0, "nil", <<>>)
          /\ UNCHANGED onceLock
     ELSE /\ onceLock = 0
          /\ onceLock' = p
          /\ pc' = [pc EXCEPT ![p] = "c_lock"]
          /\ UNCHANGED ret
  /\ UNCHANGED <<config, bufVars, done, drainElapsed, onceDone, notifyStopped, closes,
                 bufferLock, readLock, notifyCount, op, arg, ok, tickerAge>>

\* Mutant: Close does not take bufferLock.
CloseLockNone(p) ==
  /\ pc[p] = "c_lock"
  /\ pc' = [pc EXCEPT ![p] = "c_stop"]
  /\ UNCHANGED <<config, bufVars, closeVars, bufferLock, readLock, notifyCount,
                 op, arg, ok, tickerAge, ret>>

\* tsb.bufferLock.Lock()
CloseLock(p) ==
  /\ pc[p] = "c_lock"
  /\ bufferLock = 0
  /\ bufferLock' = p
  /\ pc' = [pc EXCEPT ![p] = "c_stop"]
  /\ UNCHANGED <<config, bufVars, closeVars, readLock, notifyCount, op, arg, ok,
                 tickerAge, ret>>

\* Mutant: Close frees bufferLock as soon as it has stopped the signal.
CloseStopUnlocks(p) ==
  /\ pc[p] = "c_stop"
  /\ notifyStopped' = TRUE
  /\ bufferLock' = 0
  /\ pc' = [pc EXCEPT ![p] = "c_done"]
  /\ UNCHANGED <<config, bufVars, done, drainElapsed, onceDone, onceLock, closes,
                 readLock, notifyCount, op, arg, ok, tickerAge, ret>>

\* tsb.notify.Stop()
CloseStop(p) ==
  /\ pc[p] = "c_stop"
  /\ notifyStopped' = TRUE
  /\ pc' = [pc EXCEPT ![p] = "c_done"]
  /\ UNCHANGED <<config, bufVars, done, drainElapsed, onceDone, onceLock, closes,
                 bufferLock, readLock, notifyCount, op, arg, ok, tickerAge, ret>>

\* close(tsb.done)
CloseDone(p) ==
  /\ pc[p] = "c_done"
  /\ done' = TRUE
  /\ closes' = closes + 1
  /\ pc' = [pc EXCEPT ![p] = "c_time"]
  /\ UNCHANGED <<config, bufVars, drainElapsed, onceDone, onceLock, notifyStopped,
                 bufferLock, readLock, notifyCount, op, arg, ok, tickerAge, ret>>

\* if tsb.config.DrainTime != 0 { tsb.drainTime = time.Now() }
CloseTime(p) ==
  /\ pc[p] = "c_time"
  /\ drainElapsed' = IF config.DrainTime # 0 THEN 0 ELSE drainElapsed
  /\ pc' = [pc EXCEPT ![p] = "c_unlock"]
  /\ UNCHANGED <<config, bufVars, done, onceDone, onceLock, notifyStopped, closes,
                 bufferLock, readLock, notifyCount, op, arg, ok, tickerAge, ret>>

\* The deferred Unlock; the Once records that its function has run.
CloseUnlock(p) ==
  /\ pc[p] = "c_unlock"
  /\ bufferLock' = 0
  /\ onceDone' = TRUE
  /\ onceLock' = 0
  /\ Return(p, 0, "nil", <<>>)
  /\ UNCHANGED <<config, bufVars, done, drainElapsed, notifyStopped, closes,
                 readLock, notifyCount, op, arg, ok, tickerAge>>

\* ------------------------------------------------------------------- time
\* Goroutines whose ticker is running and has not yet fired.
Ticking == {p \in DOMAIN pc : /\ pc[p] \in {"r_select", "rl_lock", "rl_body"}
                          /\ tickerAge[p] < config.ReadTimeout}

Draining == drainElapsed >= 0 /\ drainElapsed <= config.DrainTime

\* One unit of time passes.
Tick ==
  /\ Ticking # {} \/ Draining
  /\ tickerAge' = [p \in DOMAIN pc |-> IF p \in Ticking THEN tickerAge[p] + 1
                                   ELSE tickerAge[p]]
  /\ drainElapsed' = IF Draining THEN drainElapsed + 1 ELSE drainElapsed
  /\ UNCHANGED <<config, bufVars, done, onceDone, onceLock, notifyStopped, closes,
                 bufferLock, readLock, notifyCount, pc, op, arg, ok, ret>>

\* ------------------------------------------------------------------- Next
Step(p) ==
  \/ WriteLock(p) \/ WriteBody(p)
  \/ ReadLock(p) \/ ReadTimeout(p) \/ ReadReady(p) \/ ReadLoopLock(p) \/ ReadLoopBody(p)
  \/ CloseOnce(p) \/ CloseLock(p) \/ CloseStop(p) \/ CloseDone(p) \/ CloseTime(p)
  \/ CloseUnlock(p)

Next ==
  \/ \E p \in Procs : WriteCall(p) \/ ReadCall(p) \/ CloseCall(p) \/ Step(p)
  \/ Tick

Spec == Init /\ [][Next]_vars

\* The same with every Read asking for at least one byte, and with the
\* scheduler letting every goroutine that can take a step take one (a
\* goroutine waiting for a mutex gets it: the calls are finitely many).
\* Read and Close never look at MaxBuffer, which is left unset here.
FairInit == \E cfg \in Config : ~cfg.MaxBuffer /\ New(cfg, Procs)

NextPos ==
  \/ \E p \in Procs :
       \/ WriteCall(p)
       \/ \E n \in 1..MaxLen : ReadCallLen(p, n)
       \/ CloseCall(p)
       \/ Step(p)
  \/ Tick

FairSpec == FairInit /\ [][NextPos]_vars /\ \A p \in Procs : WF_vars(Step(p))

\* ------------------------------------------------------- with ReadTimeout
\* Buffers with a ReadTimeout, under a fair scheduler and a clock that
\* advances.  A select with several ready cases takes one at random, so a
\* Read that finds its ticker fired again and again takes that case in the
\* end.
TimedInit ==
  \E cfg \in Config : ~cfg.MaxBuffer /\ cfg.ReadTimeout # 0 /\ New(cfg, Procs)

TimedSpec ==
  /\ TimedInit /\ [][Next]_vars
  /\ WF_vars(Tick)
  /\ \A p \in Procs : WF_vars(Step(p)) /\ SF_vars(ReadTimeout(p))

\* ------------------------------------------------- calls after one Write
\* The buffer after NewThreadSafeBuffer(cfg) and a Write of b, made by a
\* goroutine that is not in ps, has returned without error.
AfterWrite(cfg, b, ps) ==
  LET r == WriteResult(cfg, FALSE, <<>>, b)
  IN /\ r.err = "nil"
     /\ config = cfg
     /\ buffer = r.buf
     /\ done = FALSE
     /\ drainElapsed = -1
     /\ bufferLock = 0
     /\ readLock = 0
     /\ onceDone = FALSE
     /\ onceLock = 0
     /\ notifyCount = IF r.add THEN NotifyAdd(0, FALSE) ELSE 0
     /\ notifyStopped = FALSE
     /\ pc = [p \in ps |-> "init"]
     /\ op = [p \in ps |-> "none"]
     /\ arg = [p \in ps |-> <<>>]
     /\ ok = [p \in ps |-> TRUE]
     /\ tickerAge = [p \in ps |-> 0]
     /\ ret = [p \in ps |-> NoRet]
     /\ written = b
     /\ delivered = <<>>
     /\ closes = 0

\* The calls of the goroutines follow a Write of one byte: a fourth call.
AfterWriteInit == \E cfg \in Config : AfterWrite(cfg, Slice(NumProcs + 1, 1), Procs)

AfterWriteSpec == AfterWriteInit /\ [][Next]_vars

\* ------------------------------------------- the package main variant
\* The earlier ThreadSafeBuffer of package main: its Config has no
\* DrainTime, and its Read has no ticker.
MainInit ==
  \E cfg \in Config : cfg.DrainTime = 0 /\ cfg.ReadTimeout = 0 /\ New(cfg, Procs)

MainWriteCall(p) ==
  /\ \E n \in 0..MaxLen : Call(p, "write", Slice(p, n), "mw_select")
  /\ UNCHANGED <<config, bufVars, closeVars, bufferLock, readLock, notifyCount,
                 tickerAge>>

\* The select of Write on tsb.done, before bufferLock is taken.
MainWriteSelect(p) ==
  /\ pc[p] = "mw_select"
  /\ IF done
     THEN Return(p, 0, "WriteClosed", <<>>)
     ELSE pc' = [pc EXCEPT ![p] = "mw_lock"] /\ UNCHANGED ret
  /\ UNCHANGED <<config, bufVars, closeVars, bufferLock, readLock, notifyCount,
                 op, arg, ok, tickerAge>>

\* tsb.bufferLock.Lock()
MainWriteLock(p) ==
  /\ pc[p] = "mw_lock"
  /\ bufferLock = 0
  /\ bufferLock' = p
  /\ pc' = [pc EXCEPT ![p] = "mw_body"]
  /\ UNCHANGED <<config, bufVars, closeVars, readLock, notifyCount, op, arg, ok,
                 tickerAge, ret>>

\* The capacity test, the write and notify.Add(), then the deferred Unlock;
\* done is not looked at again.
MainWriteBody(p) ==
  /\ pc[p] = "mw_body"
  /\ LET r == WriteResult(config, FALSE, buffer, arg[p])
     IN /\ buffer' = r.buf
        /\ written' = IF r.err = "nil" THEN written \o arg[p] ELSE written
        /\ notifyCount' = IF r.add THEN NotifyAdd(notifyCount, notifyStopped)
                          ELSE notifyCount
        /\ Return(p, r.n, r.err, <<>>)
  /\ bufferLock' = 0
  /\ UNCHANGED <<config, delivered, closeVars, readLock, op, arg, ok, tickerAge>>

MainReadCall(p) ==
  /\ \E n \in 0..MaxLen : Call(p, "read", Target(n), "mr_lock")
  /\ UNCHANGED <<config, bufVars, closeVars, bufferLock, readLock, notifyCount,
                 tickerAge>>

\* tsb.readLock.Lock()
MainReadLock(p) ==
  /\ pc[p] = "mr_lock"
  /\ readLock = 0
  /\ readLock' = p
  /\ pc' = [pc EXCEPT ![p] = "mr_select"]
  /\ UNCHANGED <<config, bufVars, closeVars, bufferLock, notifyCount, op, arg, ok,
                 tickerAge, ret>>

\* case _, ok := <-tsb.notify.Ready()
MainReadReady(p) ==
  /\ pc[p] = "mr_select"
  /\ NotifyReady(notifyCount, notifyStopped)
  /\ LET r == NotifyReceive(notifyCount, notifyStopped)
     IN /\ ok' = [ok EXCEPT ![p] = r.ok]
        /\ notifyCount' = r.count
  /\ pc' = [pc EXCEPT ![p] = "mr_buflock"]
  /\ UNCHANGED <<config, bufVars, closeVars, bufferLock, readLock, op, arg,
                 tickerAge, ret>>

\* tsb.bufferLock.Lock() of Read
MainReadBufferLock(p) ==
  /\ pc[p] = "mr_buflock"
  /\ bufferLock = 0
  /\ bufferLock' = p
  /\ pc' = [pc EXCEPT ![p] = "mr_body"]
  /\ UNCHANGED <<config, bufVars, closeVars, readLock, notifyCount, op, arg, ok,
                 tickerAge, ret>>

\* What Read does once shouldDrain has answered drain, on a closed buffer.
MainDrain(drain, buf, b) ==
  IF drain
  THEN IF HasEnough(buf, b) THEN ReadAndNotify(buf, b)
       ELSE ReadFail(buf, "Insufficient")
  ELSE ReadFail(buf, "ReadClosed")

\* Read returns r: both locks are freed.
MainReadReturn(p, r) ==
  /\ buffer' = r.buf
  /\ notifyCount' = IF r.add THEN NotifyAdd(notifyCount, notifyStopped)
                    ELSE notifyCount
  /\ Return(p, r.n, r.err, r.data)
  /\ delivered' = delivered \o r.data
  /\ bufferLock' = 0
  /\ readLock' = 0

\* Read from the receive, holding bufferLock, to its return or its next
\* wait.  On a closed buffer it calls shouldDrain, which with DrainRead
\* takes bufferLock itself ("sd_lock"): a sync.Mutex is not reentrant, so
\* this Lock waits for the Unlock of its own caller.
MainReadBody(p) ==
  /\ pc[p] \in {"mr_body", "sd_lock", "sd_body"}
  /\ IF pc[p] = "mr_body"
     THEN IF ~ok[p]
          THEN IF config.DrainRead
               THEN /\ pc' = [pc EXCEPT ![p] = "sd_lock"]
                    /\ UNCHANGED <<bufVars, bufferLock, readLock, notifyCount, ret>>
               ELSE /\ MainReadReturn(p, MainDrain(FALSE, buffer, arg[p]))
                    /\ UNCHANGED written
          ELSE IF HasEnough(buffer, arg[p])
               THEN /\ MainReadReturn(p, ReadAndNotify(buffer, arg[p]))
                    /\ UNCHANGED written
               ELSE /\ bufferLock' = 0
                    /\ pc' = [pc EXCEPT ![p] = "mr_select"]
                    /\ UNCHANGED <<bufVars, readLock, notifyCount, ret>>
     ELSE IF pc[p] = "sd_lock"
          THEN /\ bufferLock = 0
               /\ bufferLock' = p
               /\ pc' = [pc EXCEPT ![p] = "sd_body"]
               /\ UNCHANGED <<bufVars, readLock, notifyCount, ret>>
          ELSE /\ MainReadReturn(p, MainDrain(Len(buffer) # 0, buffer, arg[p]))
               /\ UNCHANGED written
  /\ UNCHANGED <<config, closeVars, op, arg, ok, tickerAge>>

MainCloseCall(p) ==
  /\ Call(p, "close", <<>>, "mc_once")
  /\ UNCHANGED <<config, bufVars, closeVars, bufferLock, readLock, notifyCount,
                 tickerAge>>

\* tsb.once.Do
MainCloseOnce(p) ==
  /\ pc[p] = "mc_once"
  /\ IF OnceRan(onceDone)
     THEN /\ Return(p, 0, "nil", <<>>)
          /\ UNCHANGED onceLock
     ELSE /\ onceLock = 0
          /\ onceLock' = p
          /\ pc' = [pc EXCEPT ![p] = "mc_done"]
          /\ UNCHANGED ret
  /\ UNCHANGED <<config, bufVars, done, drainElapsed, onceDone, notifyStopped, closes,
                 bufferLock, readLock, notifyCount, op, arg, ok, tickerAge>>

\* close(tsb.done), without bufferLock
MainCloseDone(p) ==
  /\ pc[p] = "mc_done"
  /\ done' = TRUE
  /\ closes' = closes + 1
  /\ pc' = [pc EXCEPT ![p] = "mc_stop"]
  /\ UNCHANGED <<config, bufVars, drainElapsed, onceDone, onceLock, notifyStopped,
                 bufferLock, readLock, notifyCount, op, arg, ok, tickerAge, ret>>

\* tsb.notify.Stop(); the Once records that its function has run.
MainCloseStop(p) ==
  /\ pc[p] = "mc_stop"
  /\ notifyStopped' = TRUE
  /\ onceDone' = TRUE
  /\ onceLock' = 0
  /\ Return(p, 0, "nil", <<>>)
  /\ UNCHANGED <<config, bufVars, done, drainElapsed, closes, bufferLock, readLock,
                 notifyCount, op, arg, ok, tickerAge>>

MainStep(p) ==
  \/ MainWriteSelect(p) \/ MainWriteLock(p) \/ MainWriteBody(p)
  \/ MainReadLock(p) \/ MainReadReady(p) \/ MainReadBufferLock(p)
  \/ MainReadBody(p)
  \/ MainCloseOnce(p) \/ MainCloseDone(p) \/ MainCloseStop(p)

MainNext ==
  \E p \in Procs : MainWriteCall(p) \/ MainReadCall(p) \/ MainCloseCall(p) \/ MainStep(p)

MainSpec == MainInit /\ [][MainNext]_vars

\* ---------------------------------------------------- parallel scenario
\* Test_Parallelism: ParN goroutines each write one block of the same
\* length filled with a character of their own, ParN goroutines each read
\* one block of that length, on an unlimited buffer.
ParProcs == 1..(2 * ParN)

Block(p, n) == [i \in 1..n |-> p]

\* n is the block length of the calls made so far.
ParLen(n) == \A q \in DOMAIN pc : op[q] # "none" => Len(arg[q]) = n

ParCount(o) == Cardinality({q \in DOMAIN pc : op[q] = o})

ParWriteCall(p) ==
  \E n \in 1..MaxLen :
    ParLen(n) /\ ParCount("write") < ParN /\ WriteCallSlice(p, Block(p, n))

ParReadCall(p) ==
  \E n \in 1..MaxLen :
    ParLen(n) /\ ParCount("read") < ParN /\ ReadCallLen(p, n)

ParStep(p) ==
  \/ WriteLock(p) \/ WriteBody(p)
  \/ ReadLock(p) \/ ReadReady(p) \/ ReadLoopLock(p) \/ ReadLoopBody(p)

ParInit == New(UnlimitedBuffer, ParProcs)

ParNext == \E p \in ParProcs : ParWriteCall(p) \/ ParReadCall(p) \/ ParStep(p)

ParSpec == ParInit /\ [][ParNext]_vars /\ \A p \in ParProcs : WF_vars(ParStep(p))

\* ------------------------------------------------------------- properties
\* Goroutine p is a Read of at least one byte / a Write.
IsRead(p) == op[p] = "read" /\ Len(arg[p]) >= 1
IsWrite(p) == op[p] = "write"

\* The call of p returns in this step.
Returning(p) == pc[p] # "done" /\ pc'[p] = "done"

\* C1: a Read of n >= 1 bytes that returns without error returns the count
\* n, delivers the n oldest bytes of the storage it extracted from, and
\* removes exactly those bytes; never a short or a long read.
C1_ExactRead ==
  [][\A p \in DOMAIN pc :
       (IsRead(p) /\ Returning(p) /\ ret'[p].err = "nil") =>
         LET n == Len(arg[p])
         IN /\ ret'[p].n = n
            /\ Len(buffer) >= n
            /\ ret'[p].data = SubSeq(buffer, 1, n)
            /\ buffer' = SubSeq(buffer, n + 1, Len(buffer))]_vars

\* A Read of 2 bytes has succeeded and left bytes in storage.
C1_Witness ==
  \E p \in DOMAIN pc :
    /\ IsRead(p) /\ pc[p] = "done" /\ ret[p].err = "nil"
    /\ Len(arg[p]) = 2 /\ Len(buffer) > 0

\* C2: the bytes delivered by the successful Reads, in the order of their
\* extraction, followed by the storage, are the bytes of the successful
\* Writes in the order these took the storage lock.
C2_Fifo == delivered \o buffer = written

\* Two Writes have stored bytes, a Read has delivered some, some remain.
C2_Witness ==
  /\ Len(delivered) > 0 /\ Len(buffer) > 0
  /\ \E p, q \in DOMAIN pc :
       /\ p # q /\ IsWrite(p) /\ IsWrite(q)
       /\ ret[p].err = "nil" /\ ret[q].err = "nil"
       /\ ret[p].n > 0 /\ ret[q].n > 0

\* C3: once done is closed it stays closed, the storage never grows again,
\* and every Write that runs its body returns 0 with the closed error, also
\* a Write that would exceed the capacity.
C3_NoWriteAfterClose ==
  [][done =>
       /\ done'
       /\ Len(buffer') <= Len(buffer)
       /\ \A p \in DOMAIN pc :
            (IsWrite(p) /\ Returning(p)) =>
              ret'[p] = [n |-> 0, err |-> "WriteClosed", data |-> <<>>]]_vars

\* A Write larger than the capacity left was refused as closed.
C3_Witness ==
  \E p \in DOMAIN pc :
    /\ IsWrite(p) /\ pc[p] = "done" /\ ret[p].err = "WriteClosed"
    /\ done /\ config.MaxBuffer
    /\ Len(buffer) + Len(arg[p]) > config.MaxBufferSize

\* The drain window of section 4.2(c) is open.
WindowOpen ==
  config.DrainTime = 0 \/ (drainElapsed >= 0 /\ drainElapsed <= config.DrainTime)

\* C5: the Read of n >= 1 bytes that evaluates a closed buffer returns, and
\* what it returns is decided by the drain rules alone.
C5_DrainRules ==
  [][\A p \in DOMAIN pc :
       (IsRead(p) /\ pc[p] = "rl_body" /\ pc'[p] # "rl_body" /\ done) =>
         LET n == Len(arg[p])
             have == Len(buffer)
             drain == config.DrainRead /\ WindowOpen
         IN /\ pc'[p] = "done"
            /\ (ret'[p].err = "nil") <=> (drain /\ have # 0 /\ have >= n)
            /\ (ret'[p].err = "nil") => ret'[p].n = n
            /\ (ret'[p].err = "Insufficient") <=> (drain /\ 0 < have /\ have < n)
            /\ (ret'[p].err = "ReadClosed") <=>
                 (~config.DrainRead \/ ~WindowOpen \/ have = 0)
            /\ ret'[p].err \in {"nil", "Insufficient", "ReadClosed"}]_vars

\* A Read found the drain window expired with bytes still stored.
C5_Witness ==
  \E p \in DOMAIN pc :
    /\ IsRead(p) /\ pc[p] = "done" /\ ret[p].err = "ReadClosed"
    /\ config.DrainRead /\ config.DrainTime # 0 /\ ~WindowOpen
    /\ Len(buffer) >= Len(arg[p])

\* C6: with MaxBuffer the storage never exceeds MaxBufferSize; a Write on
\* the open buffer is refused with the capacity error when it would exceed
\* it, and otherwise appends all its bytes and returns their number.
C6_Capacity ==
  /\ [](config.MaxBuffer => Len(buffer) <= config.MaxBufferSize)
  /\ [][\A p \in DOMAIN pc :
          (config.MaxBuffer /\ IsWrite(p) /\ Returning(p) /\ ~done) =>
            IF Len(buffer) + Len(arg[p]) > config.MaxBufferSize
            THEN /\ ret'[p] = [n |-> 0, err |-> "Capacity", data |-> <<>>]
                 /\ buffer' = buffer
            ELSE /\ ret'[p] = [n |-> Len(arg[p]), err |-> "nil", data |-> <<>>]
                 /\ buffer' = buffer \o arg[p]]_vars

\* One Write filled the storage to its capacity and another was refused.
C6_Witness ==
  /\ config.MaxBuffer /\ Len(buffer) = config.MaxBufferSize
  /\ \E p, q \in DOMAIN pc :
       /\ IsWrite(p) /\ pc[p] = "done" /\ ret[p].err = "Capacity"
       /\ IsWrite(q) /\ pc[q] = "done" /\ ret[q].err = "nil" /\ ret[q].n > 0

\* C7: on the open buffer a Read of n >= 1 bytes returns only with the
\* timeout error or with exactly n bytes taken from a storage of at least
\* n; with fewer than n bytes stored it goes back to waiting, and without a
\* ReadTimeout it returns only with its bytes.
C7_OpenReadWaits ==
  [][\A p \in DOMAIN pc :
       (IsRead(p) /\ ~done) =>
         LET n == Len(arg[p])
         IN /\ Returning(p) =>
                 \/ ret'[p] = [n |-> 0, err |-> "Timeout", data |-> <<>>]
                      /\ config.ReadTimeout # 0 /\ buffer' = buffer
                 \/ /\ ret'[p].err = "nil" /\ ret'[p].n = n
                    /\ Len(buffer) >= n /\ Len(ret'[p].data) = n
            /\ (pc[p] = "rl_body" /\ pc'[p] # "rl_body" /\ Len(buffer) < n) =>
                 /\ pc'[p] = "r_select"
                 /\ UNCHANGED <<buffer, ret, readLock>>]_vars

\* Without a ReadTimeout a Read took the notification of a Write, found
\* fewer bytes than it wants, and waits again on the open buffer.
C7_Witness ==
  \E p \in DOMAIN pc :
    /\ IsRead(p) /\ pc[p] = "r_select" /\ ~done /\ config.ReadTimeout = 0
    /\ notifyCount = 0 /\ 0 < Len(buffer) /\ Len(buffer) < Len(arg[p])

\* Close has been called.
CloseCalled == \E q \in DOMAIN pc : op[q] = "close"

OneBlock(p) ==
  /\ \A i, j \in 1..Len(ret[p].data) : ret[p].data[i] = ret[p].data[j]
  /\ \E w \in DOMAIN pc : IsWrite(w) /\ ret[p].data = arg[w]

ReadOk(p) == IsRead(p) /\ pc[p] = "done" /\ ret[p].err = "nil"

\* C8: in the parallel scenario every successful Read delivers a block of
\* one repeated character, the block of one writer, and no two Reads
\* deliver the block of the same writer.
C8_BlocksNotMixed ==
  \A p \in DOMAIN pc :
    ReadOk(p) =>
      /\ OneBlock(p)
      /\ \A q \in DOMAIN pc : (q # p /\ ReadOk(q)) => ret[q].data # ret[p].data

\* Two Reads have each delivered a block of MaxLen bytes.
C8_Witness ==
  \E p, q \in DOMAIN pc :
    /\ p # q /\ ReadOk(p) /\ ReadOk(q)
    /\ Len(ret[p].data) = MaxLen /\ Len(ret[q].data) = MaxLen

ParAllCalled == ParCount("write") = ParN /\ ParCount("read") = ParN

ParFinished ==
  /\ \A p \in DOMAIN pc : pc[p] = "done" /\ ret[p].err = "nil"
  /\ \A p \in DOMAIN pc : ret[p].n = Len(arg[p])
  /\ Len(delivered) = Len(written)
  /\ buffer = <<>>

\* C9: in the parallel scenario, once the ParN Writes and the ParN Reads
\* have been called, all of them return without error, as many bytes are
\* read as were written, and the storage ends empty.
C9_AllReadsReturn == ParAllCalled ~> ParFinished

\* All calls returned, the blocks being MaxLen bytes long.
C9_Witness == ParFinished /\ Len(written) = ParN * MaxLen

\* Goroutines inside the function Close hands to the Once.
Closing == {p \in DOMAIN pc : pc[p] \in {"c_lock", "c_stop", "c_done", "c_time", "c_unlock"}}

\* C10: every Close returns; the function of Close runs once, closing done
\* and stopping the signal once; after it has run, a Close only returns,
\* and the close time, recorded only with a DrainTime, is never taken again.
C10_CloseIdempotent ==
  /\ [](closes <= 1 /\ Cardinality(Closing) <= 1)
  /\ [](config.DrainTime = 0 => drainElapsed = -1)
  /\ [][onceDone =>
          /\ UNCHANGED <<done, notifyStopped, closes, onceDone>>
          /\ drainElapsed' >= drainElapsed
          /\ \A p \in DOMAIN pc :
               (op[p] = "close" /\ pc'[p] # pc[p]) =>
                 /\ pc'[p] = "done"
                 /\ UNCHANGED <<buffer, drainElapsed, notifyCount, bufferLock>>]_vars
  /\ \A p \in Procs : (op[p] = "close") ~> (pc[p] = "done")

\* Two Close calls have returned, time having passed since the first.
C10_Witness ==
  /\ closes = 1 /\ config.DrainTime # 0 /\ drainElapsed > 0
  /\ \E p, q \in DOMAIN pc :
       /\ p # q /\ op[p] = "close" /\ op[q] = "close"
       /\ pc[p] = "done" /\ pc[q] = "done"

\* Goroutines inside the body of Read: at its select or in readLoop.
InRead == {p \in DOMAIN pc : pc[p] \in {"r_select", "rl_lock", "rl_body"}}

\* C11: at most one Read is inside its body, holding readLock; every other
\* Read that has not returned is queued on readLock; and the storage only
\* shrinks by the whole request of the Read that holds both locks, in one
\* step.
C11_ReadsExclusive ==
  /\ [](/\ Cardinality(InRead) <= 1
        /\ \A p \in DOMAIN pc :
             /\ p \in InRead => readLock = p
             /\ (op[p] = "read" /\ pc[p] # "done" /\ p \notin InRead) =>
                  pc[p] = "r_lock"
             /\ pc[p] = "rl_body" => bufferLock = p)
  /\ [][Len(buffer') < Len(buffer) =>
          \E p \in DOMAIN pc :
            /\ pc[p] = "rl_body" /\ bufferLock = p /\ readLock = p
            /\ Returning(p) /\ ret'[p].err = "nil"
            /\ Len(buffer) - Len(buffer') = Len(arg[p])
            /\ ret'[p].data = SubSeq(buffer, 1, Len(arg[p]))]_vars

\* One Read evaluates an open storage that holds enough bytes while another
\* Read queues on readLock.
C11_Witness ==
  \E p, q \in DOMAIN pc :
    /\ pc[p] = "rl_body" /\ pc[q] = "r_lock" /\ IsRead(p) /\ IsRead(q)
    /\ ~done /\ Len(buffer) >= Len(arg[p])

\* Read p waits at its select with nothing to receive.
Blocked(p) ==
  /\ op[p] = "read" /\ pc[p] = "r_select"
  /\ ~NotifyReady(notifyCount, notifyStopped)

\* C12: a Read waiting at its select does not hold bufferLock, and every
\* Write that is called returns, whatever the Reads do.
C12_WriteNeverWaitsForRead ==
  /\ [](\A p \in DOMAIN pc : pc[p] = "r_select" => bufferLock # p)
  /\ \A p \in Procs : (op[p] = "write") ~> (pc[p] = "done")

\* A Write has stored its byte and returned although a Read, called before
\* it, is blocked with too few bytes to take and no timeout to end it.
C12_Witness ==
  \E p, q \in DOMAIN pc :
    /\ p < q /\ Blocked(p) /\ config.ReadTimeout = 0
    /\ op[q] = "write" /\ pc[q] = "done" /\ ret[q].err = "nil" /\ ret[q].n = 1
    /\ Len(buffer) = 1 /\ Len(arg[p]) = 2

\* C13 as stated: no Read holds readLock while it waits at its select.
C13_ReadLockFreeWhileWaiting ==
  \A p \in DOMAIN pc : (op[p] = "read" /\ pc[p] = "r_select") => readLock # p

\* C13, amended: a Read waiting at its select holds readLock, which it
\* keeps for its whole call, and does not hold bufferLock; a Read holds
\* bufferLock in the body of readLoop only.
C13_LocksWhileWaiting ==
  \A p \in DOMAIN pc :
    op[p] = "read" =>
      /\ pc[p] \in {"r_select", "rl_lock"} => readLock = p /\ bufferLock # p
      /\ pc[p] = "rl_body" => readLock = p /\ bufferLock = p
      /\ pc[p] \in {"r_lock", "done"} => readLock # p /\ bufferLock # p

\* A Read is blocked at its select while a Write holds bufferLock and another
\* Read queues on readLock.
C13_Witness ==
  \E p, q, w \in DOMAIN pc :
    /\ Blocked(p) /\ readLock = p
    /\ op[q] = "read" /\ pc[q] = "r_lock"
    /\ op[w] = "write" /\ pc[w] = "w_body" /\ bufferLock = w

\* C14: while the buffer is open, no Read waits at its select, with nothing
\* to receive, for bytes the storage already holds; and when no Read is in
\* progress and the storage is not empty, a notification is pending.
C14_NoLostWakeup ==
  (~done /\ ~notifyStopped) =>
    /\ \A p \in DOMAIN pc :
         (IsRead(p) /\ pc[p] = "r_select" /\ Len(buffer) >= Len(arg[p])) =>
           NotifyReady(notifyCount, notifyStopped)
    /\ (InRead = {} /\ buffer # <<>>) => NotifyReady(notifyCount, notifyStopped)

\* Read p asks for no byte.
IsEmptyRead(p) == op[p] = "read" /\ Len(arg[p]) = 0

\* C15: a Read of length 0 that evaluates the storage of an open buffer, or
\* of a closed buffer it may drain, returns (0, nil) and does not go back to
\* wait.
C15_EmptyReadReturns ==
  [][\A p \in DOMAIN pc :
       (/\ IsEmptyRead(p) /\ pc[p] = "rl_body" /\ pc'[p] # "rl_body"
        /\ (done => shouldDrain(config, buffer, drainElapsed))) =>
         /\ pc'[p] = "done"
         /\ ret'[p] = [n |-> 0, err |-> "nil", data |-> <<>>]]_vars

\* Read p was woken by the stop of the signal.
WokenByStop(p) == op[p] = "read" /\ pc[p] \in {"rl_lock", "rl_body"} /\ ~ok[p]

\* C16: a Read woken by the stop of the signal evaluates the storage, under
\* bufferLock, with done closed and, when DrainTime is set, drainTime
\* recorded; it takes the closed branch of readLoop, where a Read of one
\* byte or more returns.
C16_StoppedReadSeesClosed ==
  /\ [](\A p \in DOMAIN pc :
          (WokenByStop(p) /\ pc[p] = "rl_body") =>
            /\ bufferLock = p /\ done
            /\ config.DrainTime # 0 => drainElapsed >= 0)
  /\ [][\A p \in DOMAIN pc :
          (WokenByStop(p) /\ IsRead(p) /\ pc[p] = "rl_body"
           /\ pc'[p] # "rl_body") =>
            /\ pc'[p] = "done"
            /\ ret'[p].err \in
                 IF shouldDrain(config, buffer, drainElapsed)
                 THEN {"nil", "Insufficient"} ELSE {"ReadClosed"}]_vars

\* A Read received the stop of the signal while Close had not yet closed
\* done, and waits for bufferLock, which Close holds.
C16_Witness ==
  \E p, c \in DOMAIN pc :
    /\ WokenByStop(p) /\ pc[p] = "rl_lock" /\ IsRead(p)
    /\ ~done /\ pc[c] = "c_done" /\ bufferLock = c

\* Some Read has failed for want of bytes on the closed buffer.
SomeInsufficient ==
  \E q \in DOMAIN pc : op[q] = "read" /\ pc[q] = "done" /\ ret[q].err = "Insufficient"

\* C17: a Write or Read that returns an error returns the count 0 and no
\* byte, and leaves the storage and done as they were; and after a Read has
\* failed for want of bytes, a Read that asks for no more than the storage
\* of the closed, still draining buffer holds returns its oldest bytes.
C17_ErrorsChangeNothing ==
  /\ [][\A p \in DOMAIN pc :
          (Returning(p) /\ op[p] \in {"read", "write"} /\ ret'[p].err # "nil") =>
            /\ ret'[p].n = 0 /\ ret'[p].data = <<>>
            /\ buffer' = buffer /\ done' = done
            /\ written' = written /\ delivered' = delivered]_vars
  /\ [][\A p \in DOMAIN pc :
          (/\ SomeInsufficient /\ IsRead(p)
           /\ pc[p] = "rl_body" /\ pc'[p] # "rl_body"
           /\ shouldDrain(config, buffer, drainElapsed)
           /\ Len(arg[p]) <= Len(buffer)) =>
            /\ Returning(p) /\ ret'[p].err = "nil" /\ ret'[p].n = Len(arg[p])
            /\ ret'[p].data = SubSeq(buffer, 1, Len(arg[p]))
            /\ buffer' = SubSeq(buffer, Len(arg[p]) + 1, Len(buffer))]_vars

\* A Read of two bytes has failed on the closed buffer that holds one byte,
\* and a Read of one byte has then returned that byte.
C17_Witness ==
  \E p, q \in DOMAIN pc :
    /\ op[q] = "read" /\ pc[q] = "done" /\ ret[q].err = "Insufficient"
    /\ Len(arg[q]) = 2
    /\ IsRead(p) /\ pc[p] = "done" /\ ret[p].err = "nil"
    /\ ret[p].data = written /\ Len(written) = 1 /\ ok[p] = FALSE

\* C18: with a ReadTimeout every Read returns, Writes and Close or not; the
\* Read that times out returns 0 bytes and the timeout error, changes no
\* stored byte and frees readLock, so that the Reads queued behind it run.
C18_TimedReadsReturn ==
  /\ \A p \in Procs : (op[p] = "read") ~> (pc[p] = "done")
  /\ [][\A p \in DOMAIN pc :
          (Returning(p) /\ ret'[p].err = "Timeout") =>
            /\ op[p] = "read" /\ ret'[p].n = 0 /\ ret'[p].data = <<>>
            /\ readLock = p /\ readLock' = 0
            /\ buffer' = buffer]_vars

\* Three Reads, no Write and no Close: each Read has timed out in its turn.
C18_Witness ==
  /\ \A p \in DOMAIN pc :
       op[p] = "read" /\ pc[p] = "done" /\ ret[p].err = "Timeout"
  /\ written = <<>> /\ ~done /\ readLock = 0

\* C19: in the package main variant, Read never asks for bufferLock while it
\* holds it, so that a Read woken on a closed buffer with DrainRead returns;
\* and a Read that has returned holds neither lock.
C19_MainReadNoSelfDeadlock ==
  \A p \in DOMAIN pc :
    /\ pc[p] = "sd_lock" => bufferLock # p
    /\ (op[p] = "read" /\ pc[p] = "done") => bufferLock # p /\ readLock # p

\* Close has recorded drainTime, where the configuration asks for it.
DrainTimeSet == config.DrainTime # 0 => drainElapsed >= 0

\* C20 as stated: the signal is never stopped while done is still open or
\* drainTime not yet recorded.
C20_StoppedOnlyWhenClosed == notifyStopped => (done /\ DrainTimeSet)

\* C20, amended: the first Close stops the signal, then closes done, then
\* records drainTime, holding bufferLock from before the first of these
\* steps until after the last.
C20_CloseOrder ==
  /\ [](/\ done => notifyStopped
        /\ drainElapsed >= 0 => done
        /\ (notifyStopped /\ ~(done /\ DrainTimeSet)) =>
             \E c \in DOMAIN pc :
               /\ op[c] = "close" /\ bufferLock = c
               /\ pc[c] = IF done THEN "c_time" ELSE "c_done")
  /\ [][(\/ notifyStopped' # notifyStopped
         \/ done' # done
         \/ (drainElapsed = -1 /\ drainElapsed' # -1)) =>
          \E c \in DOMAIN pc :
            op[c] = "close" /\ bufferLock = c /\ bufferLock' = c]_vars

\* Close has closed done and is about to record drainTime; a Read woken by
\* the stop waits for bufferLock.
C20_Witness ==
  \E c, p \in DOMAIN pc :
    /\ pc[c] = "c_time" /\ bufferLock = c /\ done /\ notifyStopped
    /\ config.DrainTime # 0 /\ drainElapsed = -1
    /\ pc[p] = "rl_lock" /\ ~ok[p]
====
